---- MODULE Spec2Model ----
(***************************************************************************)
(* Model of src/main.py: the Speckle Automate function automate_function,  *)
(* which receives the triggering version, flattens it, filters the nodes   *)
(* on their speckle_type, tabulates x/y into a DataFrame, writes it to an  *)
(* .xlsx file and reports to the automation context.                       *)
(*                                                                         *)
(* Python values that the code compares with == are modelled with their    *)
(* Python type: a str and a class object are different values, so that the *)
(* comparison on line 56 is computed as Python computes it.                *)
(*                                                                         *)
(* The function is executed twice, one run after the other, on the same    *)
(* version with independently chosen function inputs; the observable       *)
(* outcome of the first run is kept in prev.                               *)
(***************************************************************************)
EXTENDS Integers, Sequences, FiniteSets, TLC

(* ---------------------------- bounds ---------------------------------- *)

\* largest number of child elements under the version root object
MaxElements == 2

\* coordinate values of the objects of a version
Coords == {1, 2}

\* values of the secret function input
Whispers == {"hush", "psst"}

(* ------------------------ Python values ------------------------------- *)

PyStr(s) == [kind |-> "str", name |-> s]

PyClass(s) == [kind |-> "class", name |-> s]

\* the name Point imported on line 15: a class object
Point == PyClass("specklepy.objects.geometry.Point")

\* the type tag that the SDK declares for point geometry
PointTypeTag == PyStr("Objects.Geometry.Point")

\* the type tag of some other geometry
LineTypeTag == PyStr("Objects.Geometry.Line")

\* the values that the attribute speckle_type of a node can hold: the type
\* tag strings that the SDK declares, and the class object Point itself, which
\* is the only value that line 56 compares equal to Point
SpeckleTypes == {PointTypeTag, LineTypeTag, Point}

\* Python's == on these values: a str never equals a class object
PyEq(a, b) == a.kind = b.kind /\ a.name = b.name

\* the nodes of an object graph
Nodes == [speckle_type : SpeckleTypes, x : Coords, y : Coords]

\* sequences of at most n elements of S
SeqUpTo(S, n) == UNION {[1..k -> S] : k \in 0..n}

\* the versions: a root object with a list of child elements
Versions == [root : Nodes, elements : SeqUpTo(Nodes, MaxElements)]

Range(s) == {s[k] : k \in DOMAIN s}

(* --------------------------- flatten ----------------------------------- *)

\* flatten_base: the elements in order, then the base itself
flatten_base(base) == Append(base.elements, base.root)

(* ------------------------- the filter ----------------------------------- *)

\* the condition of the list comprehension, line 56
FilterCond(b) == PyEq(b.speckle_type, Point)

\* the list comprehension, lines 53-57
FilterObjects(flat) == SelectSeq(flat, FilterCond)

(* ------------------------- DataFrame ------------------------------------ *)

\* a cell holds <<v>>, or <<>> when it is None/NaN

\* pd.DataFrame()
NewDataFrame == [columns |-> <<>>, rows |-> <<>>]

\* df[col] = None
DfAddColumn(d, col) ==
  IF col \in Range(d.columns)
  THEN [d EXCEPT !.rows = [k \in DOMAIN d.rows |-> [d.rows[k] EXCEPT !.vals[col] = <<>>]]]
  ELSE [columns |-> Append(d.columns, col),
        rows |-> [k \in DOMAIN d.rows |->
                    [label |-> d.rows[k].label,
                     vals |-> [c \in Range(d.columns) \cup {col} |->
                                 IF c = col THEN <<>> ELSE d.rows[k].vals[c]]]]]

\* the positions of the rows that carry the index label
DfLabelPos(d, label) == {k \in DOMAIN d.rows : d.rows[k].label = label}

\* variant of DfSetLoc: every assignment appends a row
DfSetLoc_append(d, label, col, v) ==
  [d EXCEPT !.rows = Append(d.rows,
                       [label |-> label,
                        vals |-> [c \in Range(d.columns) |->
                                    IF c = col THEN <<v>> ELSE <<>>]])]

\* df.loc[label, col] = v: sets the cell of every row with that label, or
\* appends a row with that label whose other cells are NaN
DfSetLoc(d, label, col, v) ==
  IF DfLabelPos(d, label) # {}
  THEN [d EXCEPT !.rows = [k \in DOMAIN d.rows |->
                             IF d.rows[k].label = label
                             THEN [d.rows[k] EXCEPT !.vals[col] = <<v>>]
                             ELSE d.rows[k]]]
  ELSE [d EXCEPT !.rows = Append(d.rows,
                             [label |-> label,
                              vals |-> [c \in Range(d.columns) |->
                                          IF c = col THEN <<v>> ELSE <<>>]])]

\* the sheet that df.to_excel(path, index=False) writes: a header row and
\* the rows' cells in column order, without the index labels
ExcelSheet(d) ==
  [columns |-> d.columns,
   rows |-> [k \in DOMAIN d.rows |->
               [j \in DOMAIN d.columns |-> d.rows[k].vals[d.columns[j]]]]]

(* ---------------------------- paths ------------------------------------- *)

\* a path is the sequence of its components

\* 'Model_Coordinates.xlsx', line 81
excel_file_path == <<"Model_Coordinates.xlsx">>

\* "./Model_Coordinates.xlsx", line 83
stored_file_path == <<".", "Model_Coordinates.xlsx">>

IsNotDot(c) == c # "."

\* the file that a relative path denotes in the working directory
ResolvePath(p) == SelectSeq(p, IsNotDot)

(* --------------------------- messages ----------------------------------- *)

\* line 66
AttachMessage(n) == "This model has " \o ToString(n) \o " Point data objects present."

\* lines 86-87
FoundMessage(n) == "Automation successfully run: " \o "Found " \o ToString(n) \o " Points in the model"

\* line 95
NoPointsMessage == "No Point types found in the model."

(* ---------------------------- state ------------------------------------- *)

VARIABLES
  version,                            \* the version that triggered the runs
  whisper_message,                    \* function_inputs.whisper_message
  run,                                \* "first" or "second" run
  pc,                                 \* position in automate_function
  version_root_object,                \* <<>> or <<the received root>>
  objects_with_search_speckle_type,   \* the filtered list
  count,
  i,                                  \* the loop variable
  df,                                 \* the DataFrame
  fs,                                 \* the files of the working directory
  calls,                              \* the external calls made, in order
  prev                                \* what the first run left behind

vars == <<version, whisper_message, run, pc, version_root_object,
          objects_with_search_speckle_type, count, i, df, fs, calls, prev>>

\* the locals of a run that has not started
FreshRun ==
  /\ pc' = "receive"
  /\ version_root_object' = <<>>
  /\ objects_with_search_speckle_type' = <<>>
  /\ count' = 0
  /\ i' = 0
  /\ df' = NewDataFrame
  /\ fs' = {}
  /\ calls' = <<>>

Init ==
  /\ version \in Versions
  /\ whisper_message \in Whispers
  /\ run = "first"
  /\ pc = "receive"
  /\ version_root_object = <<>>
  /\ objects_with_search_speckle_type = <<>>
  /\ count = 0
  /\ i = 0
  /\ df = NewDataFrame
  /\ fs = {}
  /\ calls = <<>>
  /\ prev = [calls |-> <<>>, fs |-> {}, whisper_message |-> whisper_message]

(* --------------------------- the steps ---------------------------------- *)

\* line 51
receive_version ==
  /\ pc = "receive"
  /\ version_root_object' = <<version>>
  /\ calls' = Append(calls, [fn |-> "receive_version"])
  /\ pc' = "filter"
  /\ UNCHANGED <<version, whisper_message, run, objects_with_search_speckle_type,
                 count, i, df, fs, prev>>

\* lines 53-58
filter_objects ==
  /\ pc = "filter"
  /\ objects_with_search_speckle_type' = FilterObjects(flatten_base(version_root_object[1]))
  /\ count' = Len(objects_with_search_speckle_type')
  /\ pc' = "branch"
  /\ UNCHANGED <<version, whisper_message, run, version_root_object, i, df, fs,
                 calls, prev>>

\* variant of attach_result_to_objects: the message counts every flattened
\* object instead of the matched ones
attach_result_to_objects_all ==
  /\ pc = "branch"
  /\ count > 0
  /\ calls' = Append(calls, [fn |-> "attach_result_to_objects",
                             category |-> "Point Types",
                             message |-> AttachMessage(Len(flatten_base(version_root_object[1])))])
  /\ pc' = "new_df"
  /\ UNCHANGED <<version, whisper_message, run, version_root_object,
                 objects_with_search_speckle_type, count, i, df, fs, prev>>

\* lines 61-67
attach_result_to_objects ==
  /\ pc = "branch"
  /\ count > 0
  /\ calls' = Append(calls, [fn |-> "attach_result_to_objects",
                             category |-> "Point Types",
                             message |-> AttachMessage(count)])
  /\ pc' = "new_df"
  /\ UNCHANGED <<version, whisper_message, run, version_root_object,
                 objects_with_search_speckle_type, count, i, df, fs, prev>>

\* lines 69-73
new_table ==
  /\ pc = "new_df"
  /\ df' = DfAddColumn(DfAddColumn(DfAddColumn(NewDataFrame, "Point_Number"),
                                   "X-Coordinate"), "Y-Coordinate")
  /\ i' = 0
  /\ pc' = "loop"
  /\ UNCHANGED <<version, whisper_message, run, version_root_object,
                 objects_with_search_speckle_type, count, fs, calls, prev>>

\* variant of TabulateRow: the coordinates go to each other's column
TabulateRow_swapped(d, k, point) ==
  DfSetLoc(DfSetLoc(DfSetLoc(d, k, "Point_Number", k),
                    k, "X-Coordinate", point.y),
           k, "Y-Coordinate", point.x)

\* the body of the loop, lines 76-79, on the DataFrame d
TabulateRow(d, k, point) ==
  DfSetLoc(DfSetLoc(DfSetLoc(d, k, "Point_Number", k),
                    k, "X-Coordinate", point.x),
           k, "Y-Coordinate", point.y)

\* one iteration of the loop, lines 75-79
tabulate ==
  /\ pc = "loop"
  /\ i < count
  /\ df' = TabulateRow(df, i, objects_with_search_speckle_type[i + 1])
  /\ i' = i + 1
  /\ UNCHANGED <<version, whisper_message, run, pc, version_root_object,
                 objects_with_search_speckle_type, count, fs, calls, prev>>

\* variant of to_excel: the file is not written before it is stored
to_excel_unwritten ==
  /\ pc = "loop"
  /\ ~(i < count)
  /\ pc' = "store"
  /\ UNCHANGED <<version, whisper_message, run, version_root_object,
                 objects_with_search_speckle_type, count, i, df, fs, calls, prev>>

\* lines 81-82
to_excel ==
  /\ pc = "loop"
  /\ ~(i < count)
  /\ fs' = {f \in fs : f.path # ResolvePath(excel_file_path)}
             \cup {[path |-> ResolvePath(excel_file_path), sheet |-> ExcelSheet(df)]}
  /\ calls' = Append(calls, [fn |-> "to_excel", path |-> excel_file_path])
  /\ pc' = "store"
  /\ UNCHANGED <<version, whisper_message, run, version_root_object,
                 objects_with_search_speckle_type, count, i, df, prev>>

\* line 83
store_file_result ==
  /\ pc = "store"
  /\ calls' = Append(calls, [fn |-> "store_file_result", path |-> stored_file_path])
  /\ pc' = "mark_found"
  /\ UNCHANGED <<version, whisper_message, run, version_root_object,
                 objects_with_search_speckle_type, count, i, df, fs, prev>>

\* variant of mark_run_success_found: the run is marked failed, as in the
\* template this function was written from
mark_run_failed_found ==
  /\ pc = "mark_found"
  /\ calls' = Append(calls, [fn |-> "mark_run_failed", message |-> FoundMessage(count)])
  /\ pc' = "set_view"
  /\ UNCHANGED <<version, whisper_message, run, version_root_object,
                 objects_with_search_speckle_type, count, i, df, fs, prev>>

\* lines 85-88
mark_run_success_found ==
  /\ pc = "mark_found"
  /\ calls' = Append(calls, [fn |-> "mark_run_success", message |-> FoundMessage(count)])
  /\ pc' = "set_view"
  /\ UNCHANGED <<version, whisper_message, run, version_root_object,
                 objects_with_search_speckle_type, count, i, df, fs, prev>>

\* variant of set_context_view: the view is set and the secret input is
\* attached to the run as well
set_context_view_whisper ==
  /\ pc = "set_view"
  /\ calls' = Append(Append(calls, [fn |-> "set_context_view"]),
                     [fn |-> "attach_info_to_objects", category |-> "Inputs",
                      message |-> whisper_message])
  /\ pc' = "done"
  /\ UNCHANGED <<version, whisper_message, run, version_root_object,
                 objects_with_search_speckle_type, count, i, df, fs, prev>>

\* line 92
set_context_view ==
  /\ pc = "set_view"
  /\ calls' = Append(calls, [fn |-> "set_context_view"])
  /\ pc' = "done"
  /\ UNCHANGED <<version, whisper_message, run, version_root_object,
                 objects_with_search_speckle_type, count, i, df, fs, prev>>

\* variant of mark_run_success_none: zero matches are reported as a failure
mark_run_failed_none ==
  /\ pc = "branch"
  /\ ~(count > 0)
  /\ calls' = Append(calls, [fn |-> "mark_run_failed", message |-> NoPointsMessage])
  /\ pc' = "done"
  /\ UNCHANGED <<version, whisper_message, run, version_root_object,
                 objects_with_search_speckle_type, count, i, df, fs, prev>>

\* lines 94-95
mark_run_success_none ==
  /\ pc = "branch"
  /\ ~(count > 0)
  /\ calls' = Append(calls, [fn |-> "mark_run_success", message |-> NoPointsMessage])
  /\ pc' = "done"
  /\ UNCHANGED <<version, whisper_message, run, version_root_object,
                 objects_with_search_speckle_type, count, i, df, fs, prev>>

\* lines 113-117: the function is executed again on the same version, with
\* function inputs of its own
execute_again ==
  /\ pc = "done"
  /\ run = "first"
  /\ prev' = [calls |-> calls, fs |-> fs, whisper_message |-> whisper_message]
  /\ run' = "second"
  /\ whisper_message' \in Whispers
  /\ FreshRun
  /\ UNCHANGED version

Next ==
  \/ receive_version
  \/ filter_objects
  \/ attach_result_to_objects
  \/ new_table
  \/ tabulate
  \/ to_excel
  \/ store_file_result
  \/ mark_run_success_found
  \/ set_context_view
  \/ mark_run_success_none
  \/ execute_again

Spec == Init /\ [][Next]_vars

(* ------------------- vocabulary of the properties ----------------------- *)

\* the flattened object graph of the triggering version, in discovery order
Flat == flatten_base(version)

\* the node declares the point type in its type tag
HasPointTypeTag(n) == n.speckle_type = PointTypeTag

\* the node is a point, by its type tag or by carrying the Point class itself
IsPointObject(n) == n.speckle_type \in {PointTypeTag, Point}

\* the point objects of the version, in discovery order
PointObjects == SelectSeq(Flat, IsPointObject)

\* the filter has run
Filtered == pc \notin {"receive", "filter"}

\* the positions in calls of the calls of a function
CallsOf(fn) == {k \in DOMAIN calls : calls[k].fn = fn}

NumCalls(fn) == Cardinality(CallsOf(fn))

\* the position of the first call of a function, 0 when there is none
FirstCall(fn) == IF CallsOf(fn) = {} THEN 0
                 ELSE CHOOSE k \in CallsOf(fn) : \A m \in CallsOf(fn) : k <= m

FailureMarkers == {"mark_run_failed", "mark_run_exception"}

TableColumns == <<"Point_Number", "X-Coordinate", "Y-Coordinate">>

\* the cell of row k of a sheet under the named column
SheetCell(sheet, k, col) ==
  sheet.rows[k][CHOOSE j \in DOMAIN sheet.columns : sheet.columns[j] = col]

\* the table holds exactly the given points: row k is numbered k-1 and
\* carries the coordinates of the k-th point
TableHolds(d, points) ==
  /\ Len(d.rows) = Len(points)
  /\ \A k \in DOMAIN d.rows :
       /\ d.rows[k].vals["Point_Number"] = <<k - 1>>
       /\ d.rows[k].vals["X-Coordinate"] = <<points[k].x>>
       /\ d.rows[k].vals["Y-Coordinate"] = <<points[k].y>>

(* ------------------------------ C1 -------------------------------------- *)

\* C1: a finished run on a version with N point objects has built a table of
\* exactly N rows, row i numbered i and holding the i-th point object in
\* discovery order.
C1_RowsArePointObjects ==
  pc = "done" => TableHolds(df, PointObjects)

(* ------------------------------ C2 -------------------------------------- *)

\* C2: once the filter has run, every node whose type tag is the point type
\* is in the matched list, and the matched list holds only point nodes, in
\* discovery order.
C2_FilterSelectsPointTags ==
  Filtered =>
    /\ \A k \in DOMAIN Flat :
         HasPointTypeTag(Flat[k]) => Flat[k] \in Range(objects_with_search_speckle_type)
    /\ \A k \in DOMAIN objects_with_search_speckle_type :
         IsPointObject(objects_with_search_speckle_type[k])

(* ------------------------------ C3 -------------------------------------- *)

\* C3: when the version holds no point object, the run never writes a file
\* and never calls store_file_result, and it ends having marked the run
\* successful with the "No Point types found in the model." message and
\* without a failure marker.
C3_NoPointsNoFile ==
  (PointObjects = <<>>) =>
    /\ fs = {}
    /\ NumCalls("to_excel") = 0
    /\ NumCalls("store_file_result") = 0
    /\ \A k \in DOMAIN calls : calls[k].fn \notin FailureMarkers
    /\ pc = "done" =>
         /\ NumCalls("mark_run_success") = 1
         /\ calls[FirstCall("mark_run_success")].message = NoPointsMessage

\* a finished run on a version of several objects, none of them a point
C3_Witness ==
  /\ pc = "done"
  /\ PointObjects = <<>>
  /\ Len(Flat) >= 2
  /\ NumCalls("mark_run_success") = 1

(* ------------------------------ C4 -------------------------------------- *)

\* C4: in every file written, row i carries under X-Coordinate the x and
\* under Y-Coordinate the y of the i-th matched object, unchanged and not
\* swapped.
C4_RoundTrip ==
  \A f \in fs :
    /\ Len(f.sheet.rows) <= Len(objects_with_search_speckle_type)
    /\ \A k \in DOMAIN f.sheet.rows :
         /\ SheetCell(f.sheet, k, "X-Coordinate") = <<objects_with_search_speckle_type[k].x>>
         /\ SheetCell(f.sheet, k, "Y-Coordinate") = <<objects_with_search_speckle_type[k].y>>

\* a written file of at least two rows, one of them with x different from y
C4_Witness ==
  \E f \in fs :
    /\ Len(f.sheet.rows) >= 2
    /\ \E k \in DOMAIN f.sheet.rows :
         SheetCell(f.sheet, k, "X-Coordinate") # SheetCell(f.sheet, k, "Y-Coordinate")

(* ------------------------------ C5 -------------------------------------- *)

C6_RowCountIsMatchCount ==
  /\ pc \in {"loop", "store", "mark_found", "set_view"} =>
       TableHolds(df, SubSeq(objects_with_search_speckle_type, 1, i))
  /\ (pc = "loop" /\ ~(i < count)) =>
       Len(df.rows) = Len(objects_with_search_speckle_type)
  /\ \A f \in fs : Len(f.sheet.rows) = Len(objects_with_search_speckle_type)

\* the spreadsheet of at least two matched objects is about to be written
C6_Witness ==
  /\ pc = "loop"
  /\ ~(i < count)
  /\ Len(objects_with_search_speckle_type) >= 2
  /\ Len(df.rows) >= 2

(* ------------------------------ C7 -------------------------------------- *)

\* C7 as stated: the summary is attached only after store_file_result has
\* been called, which is called only after the spreadsheet has been written.
C7_AttachAfterStore ==
  /\ NumCalls("attach_result_to_objects") > 0 => NumCalls("store_file_result") > 0
  /\ NumCalls("store_file_result") > 0 => NumCalls("to_excel") > 0

\* C7 amended: in the points-found branch the summary is attached first,
\* then the spreadsheet is written, then store_file_result is called, then
\* the run is marked successful; store_file_result is never called before
\* the file it names has been written.
C7_ReporterOrder ==
  /\ NumCalls("to_excel") > 0 => NumCalls("attach_result_to_objects") > 0
  /\ NumCalls("store_file_result") > 0 =>
       /\ NumCalls("to_excel") > 0
       /\ FirstCall("to_excel") < FirstCall("store_file_result")
       /\ \E f \in fs : f.path = ResolvePath(calls[FirstCall("store_file_result")].path)
  /\ (count > 0 /\ NumCalls("mark_run_success") > 0) =>
       /\ 0 < FirstCall("attach_result_to_objects")
       /\ FirstCall("attach_result_to_objects") < FirstCall("to_excel")
       /\ FirstCall("to_excel") < FirstCall("store_file_result")
       /\ FirstCall("store_file_result") < FirstCall("mark_run_success")

\* the points-found branch has marked the run successful
C7_Witness ==
  /\ count > 0
  /\ NumCalls("mark_run_success") = 1
  /\ NumCalls("store_file_result") = 1
  /\ fs # {}

(* ------------------------------ C8 -------------------------------------- *)

\* C8: the second run on the same version has made the same external calls
\* with the same arguments and written the same files as the first, whatever
\* the two values of whisper_message.
C8_WhisperUnused ==
  (run = "second" /\ pc = "done") =>
    /\ calls = prev.calls
    /\ fs = prev.fs

\* two finished runs with different secrets on a version with matches
C8_Witness ==
  /\ run = "second"
  /\ pc = "done"
  /\ whisper_message # prev.whisper_message
  /\ count > 0
  /\ Len(prev.calls) > 0

(* ------------------------------ C9 -------------------------------------- *)

\* C9: a finished run on a version with at least one point object has
\* produced exactly one file, whose sheet has the three columns in order,
\* and the path given to store_file_result denotes that file.
C9_OneFileForPoints ==
  (pc = "done" /\ PointObjects # <<>>) =>
    /\ Cardinality(fs) = 1
    /\ \A f \in fs : f.sheet.columns = TableColumns
    /\ NumCalls("store_file_result") = 1
    /\ \A f \in fs : f.path = ResolvePath(calls[FirstCall("store_file_result")].path)

(* ------------------------------ C10 ------------------------------------- *)

ViewCalls == {"attach_result_to_objects", "store_file_result", "set_context_view"}

\* C10: attach_result_to_objects, store_file_result and set_context_view are
\* called at most once each, exactly once each by the end of a run whose
\* matched count is greater than 0, and never when it is 0; set_context_view
\* comes only after mark_run_success; and the counts in the attached message
\* and in the success message are the number of rows written.
C10_CallsPerBranch ==
  /\ \A fn \in ViewCalls : NumCalls(fn) <= 1
  /\ (pc = "done" /\ count > 0) => \A fn \in ViewCalls : NumCalls(fn) = 1
  /\ (Filtered /\ count = 0) => \A fn \in ViewCalls : NumCalls(fn) = 0
  /\ NumCalls("set_context_view") > 0 =>
       /\ NumCalls("mark_run_success") > 0
       /\ FirstCall("mark_run_success") < FirstCall("set_context_view")
  /\ \A f \in fs :
       /\ calls[FirstCall("attach_result_to_objects")].message = AttachMessage(Len(f.sheet.rows))
       /\ NumCalls("mark_run_success") > 0 =>
            calls[FirstCall("mark_run_success")].message = FoundMessage(Len(f.sheet.rows))

\* a finished run with matches among other objects
C10_Witness ==
  /\ pc = "done"
  /\ count > 0
  /\ count < Len(Flat)
  /\ \A fn \in ViewCalls : NumCalls(fn) = 1

====
